---- MODULE Spec2Model ----
(***************************************************************************)
(* A model of pycalc.py: calculate_pi_gauss_legendre(digits), the          *)
(* Gauss-Legendre iteration on Python's decimal.Decimal values under the   *)
(* process-wide decimal context.                                           *)
(*                                                                         *)
(* A Decimal is the triple the decimal module keeps: a sign, a coefficient *)
(* (a sequence of decimal digits, most significant first, <<0>> for zero)  *)
(* and an exponent.  Every operation reads the precision of the ambient    *)
(* context at the moment it runs and rounds half-even to it, as the        *)
(* module does.                                                            *)
(***************************************************************************)
EXTENDS Integers, Sequences, FiniteSets, TLC

(***************************************************************************)
(* Natural numbers of any size, the coefficient arithmetic of the decimal  *)
(* module.  A number is a digit sequence (most significant first, no       *)
(* leading zero, <<0>> is zero); the arithmetic runs on its limbs, groups  *)
(* of four digits, least significant limb first.                           *)
(***************************************************************************)
Base == 100 * 100

Min(i, j) == IF i < j THEN i ELSE j
Max(i, j) == IF i > j THEN i ELSE j

MinOf(S) == CHOOSE i \in S : \A j \in S : i <= j
MaxOf(S) == CHOOSE i \in S : \A j \in S : i >= j

Zeros(n) == [i \in 1..n |-> 0]

NatStrip(x) ==
    LET nz == {i \in 1..Len(x) : x[i] /= 0}
    IN  IF nz = {} THEN <<0>> ELSE SubSeq(x, MinOf(nz), Len(x))

NatIsZero(x) == \A i \in 1..Len(x) : x[i] = 0

\* x * 10^n
NatShift(x, n) == IF NatIsZero(x) THEN <<0>> ELSE NatStrip(x) \o Zeros(n)

\* the last digit of x
NatLast(x) == x[Len(x)]

\* -1, 0, 1 as x < y, x = y, x > y
StripCmp(u, v) ==
    LET diff == {i \in 1..Len(u) : u[i] /= v[i]}
    IN  IF Len(u) < Len(v) THEN -1
        ELSE IF Len(u) > Len(v) THEN 1
        ELSE IF diff = {} THEN 0
        ELSE IF u[MinOf(diff)] < v[MinOf(diff)] THEN -1 ELSE 1

NatCmp(x, y) == StripCmp(NatStrip(x), NatStrip(y))

\* the limbs of a digit sequence, and the digits of a limb sequence
Limbs(x) ==
    LET D(k) == IF k < Len(x) THEN x[Len(x) - k] ELSE 0
    IN  [i \in 1..((Len(x) + 3) \div 4) |->
            D(4 * i - 4) + 10 * D(4 * i - 3) + 100 * D(4 * i - 2) + 1000 * D(4 * i - 1)]

Digits(l) ==
    NatStrip([j \in 1..(4 * Len(l)) |->
        LET k == 4 * Len(l) - j
        IN  (l[k \div 4 + 1] \div <<1, 10, 100, 1000>>[(k % 4) + 1]) % 10])

LimbAt(l, i) == IF i <= Len(l) THEN l[i] ELSE 0

\* drop the zero limbs at the most significant end
LTrim(l) ==
    LET nz == {i \in 1..Len(l) : l[i] /= 0}
    IN  IF nz = {} THEN <<>> ELSE SubSeq(l, 1, MaxOf(nz))

LCmp(x, y) ==
    LET n    == Max(Len(x), Len(y))
        diff == {i \in 1..n : LimbAt(x, i) /= LimbAt(y, i)}
    IN  IF diff = {} THEN 0
        ELSE IF LimbAt(x, MaxOf(diff)) < LimbAt(y, MaxOf(diff)) THEN -1 ELSE 1

\* x + y: the carry into limb i comes from a limb below it that overflows,
\* through limbs that are all full
LAdd(x, y) ==
    LET n        == Max(Len(x), Len(y)) + 1
        S(i)     == LimbAt(x, i) + LimbAt(y, i)
        Carry(i) == IF \E j \in 1..(i - 1) :
                          S(j) >= Base /\ \A k \in (j + 1)..(i - 1) : S(k) = Base - 1
                    THEN 1 ELSE 0
    IN  LTrim([i \in 1..n |-> (S(i) + Carry(i)) % Base])

\* x - y for x >= y: the borrow from limb i goes to a limb below it that
\* is too small, through limbs that are all equal
LSub(x, y) ==
    LET Borrow(i) == IF \E j \in 1..(i - 1) :
                           LimbAt(x, j) < LimbAt(y, j)
                           /\ \A k \in (j + 1)..(i - 1) : LimbAt(x, k) = LimbAt(y, k)
                     THEN 1 ELSE 0
    IN  LTrim([i \in 1..Len(x) |->
                  (LimbAt(x, i) - LimbAt(y, i) - Borrow(i) + Base) % Base])

\* x * d + c for 0 <= d, c < Base
RECURSIVE LMulSmall(_, _, _)
LMulSmall(x, d, c) ==
    IF x = <<>> THEN (IF c = 0 THEN <<>> ELSE <<c>>)
    ELSE LET s == Head(x) * d + c
         IN  <<s % Base>> \o LMulSmall(Tail(x), d, s \div Base)

RECURSIVE LMul(_, _)
LMul(x, y) ==
    IF y = <<>> THEN <<>>
    ELSE LAdd(LMulSmall(x, Head(y), 0), <<0>> \o LMul(x, Tail(y)))

\* the largest k with k * d <= r, counting down from a first guess k
RECURSIVE QuotDown(_, _, _)
QuotDown(r, d, k) ==
    IF k > 0 /\ LCmp(LTrim(LMulSmall(d, k, 0)), r) > 0
    THEN QuotDown(r, d, k - 1) ELSE k

\* the quotient limb of r by d, for r < d * Base and a divisor whose top limb
\* is at least Base / 2: the guess from the top limbs is at most 2 too large
QuotLimb(r, d) ==
    LET m    == Len(r)
        n    == Len(d)
        top2 == IF m > n THEN r[m] * Base + r[m - 1] ELSE r[m]
    IN  IF m < n THEN 0
        ELSE QuotDown(r, d, Min(Base - 1, top2 \div d[n]))

\* long division of x by d > 0.  st = <<i, q, r>>: the limbs 1..i of x are
\* still to bring down, q and r are the quotient and the remainder so far
\* the state after the quotient limb k of the running remainder r1
DivPut(st, r1, d, k) == <<st[1] - 1, <<k>> \o st[2], LSub(r1, LMulSmall(d, k, 0))>>

DivStep(st, r1, d) == DivPut(st, r1, d, QuotLimb(r1, d))

RECURSIVE DivLoop(_, _, _)
DivLoop(st, x, d) ==
    IF st[1] = 0 THEN <<st[2], st[3]>>
    ELSE DivLoop(DivStep(st, LTrim(<<x[st[1]]>> \o st[3]), d), x, d)

\* x div f for 0 < f < Base, from the top limb down; st = <<i, q, r>>
RECURSIVE DivSmallLoop(_, _, _)
DivSmallLoop(st, x, f) ==
    IF st[1] = 0 THEN st[2]
    ELSE LET t == st[3] * Base + x[st[1]]
         IN  DivSmallLoop(<<st[1] - 1, <<t \div f>> \o st[2], t % f>>, x, f)

LDivSmall(x, f) == LTrim(DivSmallLoop(<<Len(x), <<>>, 0>>, x, f))

\* <<x div d, x mod d>> on limbs: both are scaled by f first, so that the
\* top limb of the divisor is at least Base / 2
ScaleOf(dd) == Base \div (dd[Len(dd)] + 1)

Unscale(qr, f) == <<LTrim(qr[1]), LDivSmall(qr[2], f)>>

LDivScaled(x, dd, f) ==
    Unscale(DivLoop(<<Len(x) + 1, <<>>, <<>>>>,
                    LMulSmall(x, f, 0) \o <<0, 0>>, LMulSmall(dd, f, 0)), f)

LDivTrimmed(x, dd) == LDivScaled(x, dd, ScaleOf(dd))

LDivMod(x, d) == LDivTrimmed(x, LTrim(d))

\* floor(x / 2)
LHalf(x) == IF x = <<>> THEN x ELSE LTrim(Tail(LMulSmall(x, Base \div 2, 0)))

\* Newton's iteration for floor(sqrt(c)) from a start n >= sqrt(c)
RECURSIVE SqrtLoop(_, _)
SqrtStep(c, n, q) == IF LCmp(n, q) <= 0 THEN n ELSE SqrtLoop(c, LHalf(LAdd(n, q)))

SqrtLoop(c, n) == SqrtStep(c, n, LTrim(LDivMod(c, n)[1]))

NatAdd(x, y) == Digits(LAdd(Limbs(x), Limbs(y)))

\* x - y for x >= y
NatSub(x, y) == Digits(LSub(Limbs(x), Limbs(y)))

NatMul(x, y) == Digits(LMul(Limbs(x), Limbs(y)))

\* <<x div y, x mod y>> for y > 0
DigitsOfBoth(qr) == <<Digits(qr[1]), Digits(qr[2])>>

NatDivMod(x, y) == DigitsOfBoth(LDivMod(Limbs(x), Limbs(y)))

\* floor(sqrt(c))
NatIsqrt(c) ==
    IF NatIsZero(c) THEN <<0>>
    ELSE Digits(SqrtLoop(LTrim(Limbs(c)),
                         Limbs(NatShift(<<1>>, (Len(c) + 1) \div 2))))

\* a small natural number as digits
RECURSIVE NatOf(_)
NatOf(n) == IF n < 10 THEN <<n>> ELSE NatOf(n \div 10) \o <<n % 10>>

(***************************************************************************)
(* decimal.Decimal values and the operations the function uses.  prec is   *)
(* the precision of the context the operation runs under.  The exponent    *)
(* limits Emin and Emax of the default context (-999999, 999999) are far   *)
(* from every exponent the exact runs produce and are not modelled.        *)
(***************************************************************************)
Dec(s, c, e) == [sign |-> s, int |-> c, exp |-> e]

\* Decimal(n) for an int n >= 0: exact, no rounding
FromInt(n) == Dec(0, NatOf(n), 0)

DecIsZero(x) == NatIsZero(x.int)

\* ROUND_HALF_EVEN on the coefficient c kept to its first n digits
\* (0 < n < Len(c)): 1 to round up, 0 when exact, -1 to round down
RoundHalfEven(c, n) ==
    LET rest     == SubSeq(c, n + 1, Len(c))
        restZero == \A i \in 2..Len(rest) : rest[i] = 0
    IN  IF rest[1] = 5 /\ restZero /\ c[n] % 2 = 0 THEN -1
        ELSE IF rest[1] >= 5 THEN 1
        ELSE IF rest[1] = 0 /\ restZero THEN 0
        ELSE -1

\* the first prec digits of c, one more when ROUND_HALF_EVEN rounds up
Rounded(c, prec) ==
    IF RoundHalfEven(c, prec) > 0
    THEN NatAdd(SubSeq(c, 1, prec), <<1>>) ELSE SubSeq(c, 1, prec)

\* a rounded coefficient of prec + 1 digits ends in 0, which goes to the exponent
Renorm(s, coeff, e, prec) ==
    IF Len(coeff) > prec
    THEN Dec(s, SubSeq(coeff, 1, Len(coeff) - 1), e + 1)
    ELSE Dec(s, coeff, e)

\* Decimal._fix: round to the precision of the context
Fix(x, prec) ==
    IF DecIsZero(x) \/ Len(x.int) <= prec THEN x
    ELSE Renorm(x.sign, Rounded(x.int, prec), Len(x.int) + x.exp - prec, prec)

\* the coefficient of x written at the exponent e <= x.exp
AtExp(x, e) == IF DecIsZero(x) THEN <<0>> ELSE x.int \o Zeros(x.exp - e)

\* the sum of two values of opposite signs whose coefficients cx, cy at the
\* exponent exp compare as cmp (rounding is ROUND_HALF_EVEN, so a zero
\* difference is +0)
AddOpposite(x, y, cx, cy, exp, cmp) ==
    IF cmp = 0 THEN Dec(0, <<0>>, exp)
    ELSE IF cmp > 0 THEN Dec(x.sign, NatSub(cx, cy), exp)
    ELSE Dec(y.sign, NatSub(cy, cx), exp)

AddAt(x, y, cx, cy, exp) ==
    IF x.sign = y.sign THEN Dec(x.sign, NatAdd(cx, cy), exp)
    ELSE AddOpposite(x, y, cx, cy, exp, NatCmp(cx, cy))

\* the sum before it is rounded
AddExact(x, y, prec) ==
    LET exp == Min(x.exp, y.exp)
    IN  IF DecIsZero(x) /\ DecIsZero(y) THEN Dec(Min(x.sign, y.sign), <<0>>, exp)
        ELSE IF DecIsZero(x)
        THEN LET e == Max(exp, y.exp - prec - 1) IN Dec(y.sign, AtExp(y, e), e)
        ELSE IF DecIsZero(y)
        THEN LET e == Max(exp, x.exp - prec - 1) IN Dec(x.sign, AtExp(x, e), e)
        ELSE AddAt(x, y, AtExp(x, exp), AtExp(y, exp), exp)

\* Decimal.__add__
DecAdd(x, y, prec) == Fix(AddExact(x, y, prec), prec)

DecNeg(x) == Dec(1 - x.sign, x.int, x.exp)

\* Decimal.__sub__: self + (-other)
DecSub(x, y, prec) == DecAdd(x, DecNeg(y), prec)

\* Decimal.__mul__
DecMul(x, y, prec) ==
    Fix(Dec((x.sign + y.sign) % 2,
            IF DecIsZero(x) \/ DecIsZero(y) THEN <<0>> ELSE NatMul(x.int, y.int),
            x.exp + y.exp), prec)

\* trailing zeros of an exact quotient are dropped up to the ideal exponent
RECURSIVE TrimTo(_, _, _, _)
TrimTo(s, c, e, ideal) ==
    IF e < ideal /\ Len(c) > 1 /\ NatLast(c) = 0
    THEN TrimTo(s, SubSeq(c, 1, Len(c) - 1), e + 1, ideal) ELSE Dec(s, c, e)

\* an inexact coefficient that ends in 0 or 5 gets 1 added, so that the
\* rounding that follows sees it as inexact
Sticky(q) == IF NatLast(q) % 5 = 0 THEN NatAdd(q, <<1>>) ELSE q

DivShift(x, y, prec) == Len(y.int) - Len(x.int) + prec + 1

\* the quotient before it is rounded, from <<coefficient, remainder>>
DivQuot(s, qr, exp, ideal) ==
    IF NatIsZero(qr[2]) THEN TrimTo(s, qr[1], exp, ideal)
    ELSE Dec(s, Sticky(qr[1]), exp)

DivAt(x, y, shift) ==
    DivQuot((x.sign + y.sign) % 2,
            NatDivMod(IF shift >= 0 THEN NatShift(x.int, shift) ELSE x.int,
                      IF shift >= 0 THEN y.int ELSE NatShift(y.int, -shift)),
            x.exp - y.exp - shift, x.exp - y.exp)

\* Decimal.__truediv__ for a divisor that is not zero
DecDiv(x, y, prec) ==
    Fix(IF DecIsZero(x) THEN Dec((x.sign + y.sign) % 2, <<0>>, x.exp - y.exp)
        ELSE DivAt(x, y, DivShift(x, y, prec)), prec)

\* floor(i / 2) for any integer i
Half(i) == IF i >= 0 THEN i \div 2 ELSE -((1 - i) \div 2)

\* <<c, r>>: the coefficient scaled to 2 * (prec + 1) digits or so, and what
\* the scaling dropped
SqrtScaled(c0, shift) ==
    IF shift >= 0 THEN <<NatShift(c0, 2 * shift), <<0>>>>
    ELSE NatDivMod(c0, NatShift(<<1>>, -2 * shift))

\* the root before it is rounded, from n = floor(sqrt(c))
SqrtRoot(cr, n, shift, e0) ==
    IF NatIsZero(cr[2]) /\ NatCmp(NatMul(n, n), cr[1]) = 0
    THEN Dec(0, IF shift >= 0 THEN NatDivMod(n, NatShift(<<1>>, shift))[1]
                ELSE NatShift(n, -shift), e0)
    ELSE Dec(0, Sticky(n), e0 - shift)

SqrtAt(cr, shift, e0) == SqrtRoot(cr, NatIsqrt(cr[1]), shift, e0)

\* Decimal.sqrt for x >= 0
DecSqrt(x, prec) ==
    LET odd   == x.exp % 2 = 1
        c0    == IF odd THEN NatShift(x.int, 1) ELSE x.int
        l     == IF odd THEN Len(x.int) \div 2 + 1 ELSE (Len(x.int) + 1) \div 2
        shift == prec + 1 - l
    IN  Fix(IF DecIsZero(x) THEN Dec(x.sign, <<0>>, Half(x.exp))
            ELSE SqrtAt(SqrtScaled(c0, shift), shift, Half(x.exp)), prec)

\* x ** 2: the square is taken at three more digits than the context has
\* (the digits of the exponent 2, plus 2) and the result is then rounded to
\* the context; a zero base gives 0
DecPow2(x, prec) ==
    IF DecIsZero(x) THEN Dec(0, <<0>>, 0)
    ELSE Fix(DecMul(x, x, prec + 3), prec)

\* Decimal.__abs__
DecAbs(x, prec) == Fix(Dec(0, x.int, x.exp), prec)

\* -1, 0, 1 for a negative, zero, positive value
SignOf(x) == IF DecIsZero(x) THEN 0 ELSE IF x.sign = 1 THEN -1 ELSE 1

\* Decimal.adjusted: the exponent of the first digit
Adjusted(x) == x.exp + Len(x.int) - 1

\* Decimal.compare as an integer: -1, 0 or 1.  Values of one sign compare by
\* their adjusted exponents, and by their coefficients when these are equal
DecCompare(x, y) ==
    IF SignOf(x) /= SignOf(y) THEN (IF SignOf(x) < SignOf(y) THEN -1 ELSE 1)
    ELSE IF SignOf(x) = 0 THEN 0
    ELSE IF Adjusted(x) > Adjusted(y) THEN SignOf(x)
    ELSE IF Adjusted(x) < Adjusted(y) THEN -SignOf(x)
    ELSE SignOf(x) * NatCmp(AtExp(x, Min(x.exp, y.exp)), AtExp(y, Min(x.exp, y.exp)))

(***************************************************************************)
(* str(Decimal) and string slicing.  A string is a sequence of characters. *)
(***************************************************************************)
DigitChar(d) == <<"0", "1", "2", "3", "4", "5", "6", "7", "8", "9">>[d + 1]

Chars(c) == [i \in 1..Len(c) |-> DigitChar(c[i])]

ZeroChars(n) == [i \in 1..n |-> "0"]

\* Decimal.__str__
DecStr(x) ==
    LET leftdigits == x.exp + Len(x.int)
        dotplace   == IF x.exp <= 0 /\ leftdigits > -6 THEN leftdigits ELSE 1
        sgn        == IF x.sign = 1 THEN <<"-">> ELSE <<>>
        intpart    == IF dotplace <= 0 THEN <<"0">>
                      ELSE IF dotplace >= Len(x.int)
                      THEN Chars(x.int) \o ZeroChars(dotplace - Len(x.int))
                      ELSE Chars(SubSeq(x.int, 1, dotplace))
        fracpart   == IF dotplace <= 0
                      THEN <<".">> \o ZeroChars(-dotplace) \o Chars(x.int)
                      ELSE IF dotplace >= Len(x.int) THEN <<>>
                      ELSE <<".">> \o Chars(SubSeq(x.int, dotplace + 1, Len(x.int)))
        ex         == leftdigits - dotplace
        exppart    == IF ex = 0 THEN <<>>
                      ELSE <<"E", IF ex < 0 THEN "-" ELSE "+">>
                              \o Chars(NatOf(IF ex < 0 THEN -ex ELSE ex))
    IN  sgn \o intpart \o fracpart \o exppart

\* s[:stop]
SliceTo(s, stop) ==
    LET n == IF stop < 0 THEN Max(Len(s) + stop, 0) ELSE Min(stop, Len(s))
    IN  SubSeq(s, 1, n)


(***************************************************************************)
(* Bounds of the model and constants of the program.                       *)
(***************************************************************************)
\* digit counts 1..MaxDigits are run with every digit of every Decimal carried
MaxDigits == 3

\* the invalid digit counts tried are -MaxInvalid..0
MaxInvalid == 10

\* the digit count of the main program
num_digits == 100000

\* digit counts for which the loop needs its 26th iteration to converge,
\* and for which 26 iterations do not converge
LateDigits == 60000000
FarDigits == 110000000

\* digits + 10, the guard digits of line 15
GuardDigits == 10

\* the constant of the safety check of line 59
SafetyLimit == 25

\* the precision of the context a Python process starts with
DefaultPrec == 28

ExactDigits == 1..MaxDigits
InvalidDigits == (-MaxInvalid)..0
LargeDigits == {num_digits, LateDigits, FarDigits}

\* the precisions at which the digits of every result are carried
Carried(prec) == prec <= MaxDigits + GuardDigits

(***************************************************************************)
(* Values that are not digit sequences.  Unbound is a local name that has  *)
(* no value yet.  Opaque is a Decimal whose digits are not carried: the    *)
(* inexact results at a precision beyond the carried ones.                 *)
(***************************************************************************)
Unbound == Dec(0, <<>>, 0)
Opaque == Dec(0, <<>>, 1)
IsOpaque(x) == x.int = <<>>

\* the context accepts a precision in 1..MAX_PREC only
ValidPrec(n) == n >= 1

Add(x, y, prec) == IF IsOpaque(x) \/ IsOpaque(y) THEN Opaque ELSE DecAdd(x, y, prec)
Sub(x, y, prec) == IF IsOpaque(x) \/ IsOpaque(y) THEN Opaque ELSE DecSub(x, y, prec)
Mul(x, y, prec) == IF IsOpaque(x) \/ IsOpaque(y) THEN Opaque ELSE DecMul(x, y, prec)
Pow2(x, prec) == IF IsOpaque(x) THEN Opaque ELSE DecPow2(x, prec)
Abs(x, prec) == IF IsOpaque(x) THEN Opaque ELSE DecAbs(x, prec)

\* beyond the carried precisions a quotient is kept when it is exact at a
\* carried precision (q * y = x), and is Opaque otherwise
KeepQuot(q, x, y, prec) ==
    IF Carried(prec) \/ DecCompare(DecMul(q, y, prec), x) = 0 THEN q ELSE Opaque

Div(x, y, prec) ==
    IF IsOpaque(x) \/ IsOpaque(y) THEN Opaque
    ELSE KeepQuot(DecDiv(x, y, Min(prec, MaxDigits + GuardDigits)), x, y, prec)

\* likewise a square root (r * r = x)
KeepRoot(r, x, prec) ==
    IF Carried(prec) \/ DecCompare(DecMul(r, r, prec), x) = 0 THEN r ELSE Opaque

Sqrt(x, prec) ==
    IF IsOpaque(x) THEN Opaque
    ELSE KeepRoot(DecSqrt(x, Min(prec, MaxDigits + GuardDigits)), x, prec)

(***************************************************************************)
(* The distance of two Opaque values a and b is carried as bounds on its   *)
(* decimal exponent, in tenths: 10^(-up/10) <= |a - b| <= 10^(-lo/10).     *)
(* Lines 41 and 42 give                                                    *)
(*     a' - b' = (a + b)/2 - sqrt(a*b) = (a - b)^2 / (2 (sqrt a + sqrt b)^2) *)
(* and 1/sqrt 2 <= b <= a <= 1 throughout, so the divisor lies between     *)
(* 8/sqrt 2 = 10^0.7526 and 8 = 10^0.9031: the exponent doubles and grows  *)
(* by 0.7526 at least and by 0.9031 at most.  It starts at                 *)
(* 1 - 1/sqrt 2 = 10^-0.5333.  The rounding of each operation moves a      *)
(* value by 10^-(digits + 9) at most, which is inside the slack of the     *)
(* bounds while the distance is not below the threshold 10^-(digits + 2).  *)
(***************************************************************************)
GapCap == 2 * 1000 * 1000 * 1000

NoGap == [lo |-> 0, up |-> 0]
FirstGap == [lo |-> 5, up |-> 6]

GapStep(g) ==
    [lo |-> IF g.lo > (GapCap - 7) \div 2 THEN GapCap ELSE 2 * g.lo + 7,
     up |-> IF g.up > (GapCap - 10) \div 2 THEN GapCap ELSE 2 * g.up + 10]

(***************************************************************************)
(* The expressions of calculate_pi_gauss_legendre, line by line.           *)
(***************************************************************************)
\* line 15: digits + 10
WorkingPrec(d) == d + GuardDigits

\* line 15 changed to leave a context alone that is already coarser
NewPrecOnlyLowered(d, cur) == Min(cur, WorkingPrec(d))

\* line 15: the precision the context gets, whatever precision cur it had
NewPrec(d, cur) == WorkingPrec(d)

\* line 19: decimal.Decimal(1) / decimal.Decimal(2).sqrt()
InitB(prec) == Div(FromInt(1), Sqrt(FromInt(2), prec), prec)

\* line 20: decimal.Decimal(1) / decimal.Decimal(4)
InitT(prec) == Div(FromInt(1), FromInt(4), prec)

\* line 36 changed to 10**digits: the two digits of margin are lost
ThresholdNoMargin(d, prec) == Dec(0, <<1>>, -d)

\* line 36: decimal.Decimal(1) / (10**(digits + 2)), for digits + 2 >= 0.
\* The quotient is exact, 1E-(digits + 2), at any precision; for the digit
\* counts beyond MaxDigits it is written down instead of divided out.
Threshold(d, prec) ==
    IF d <= MaxDigits
    THEN DecDiv(FromInt(1), Dec(0, NatShift(<<1>>, d + 2), 0), prec)
    ELSE Dec(0, <<1>>, -(d + 2))

\* line 41: (a + b) / 2
ANext(xa, xb, prec) == Div(Add(xa, xb, prec), FromInt(2), prec)

\* line 42: (a * b).sqrt()
BNext(xa, xb, prec) == Sqrt(Mul(xa, xb, prec), prec)

\* line 43: t - p * (a - a_next)**2
TNext(xt, xp, xa, xan, prec) ==
    Sub(xt, Mul(xp, Pow2(Sub(xa, xan, prec), prec), prec), prec)

\* line 44 changed to 2 + p
PNextSum(xp, prec) == Add(FromInt(2), xp, prec)

\* line 44: 2 * p
PNext(xp, prec) == Mul(FromInt(2), xp, prec)

\* line 53: abs(a - b).compare(threshold) < 0, as the set of its possible
\* values.  For Opaque a and b the bounds g on their distance decide it
\* when they are clear of the threshold 1E-k, and leave it open otherwise.
Converged(xa, xb, thr, g, prec) ==
    IF ~IsOpaque(xa) /\ ~IsOpaque(xb)
    THEN {DecCompare(Abs(Sub(xa, xb, prec), prec), thr) < 0}
    ELSE IF thr.int = <<1>> /\ g.lo > 10 * (-thr.exp) THEN {TRUE}
    ELSE IF thr.int = <<1>> /\ g.up < 10 * (-thr.exp) THEN {FALSE}
    ELSE {TRUE, FALSE}

\* line 59: iteration_count > 25
SafetyBreak(n) == n > SafetyLimit

\* line 60: the line printed
Warning(n) == <<"Warning: Reached max iterations (", n,
                ") without full convergence. Result might be less precise.">>

\* line 64: (a + b)**2 / (4 * t)
FinalPi(xa, xb, xt, prec) ==
    Div(Pow2(Add(xa, xb, prec), prec), Mul(FromInt(4), xt, prec), prec)

\* line 68: str(pi)[:digits + 2]; the string of an Opaque value is not carried
OpaqueStr == <<"...">>

\* line 68 changed to round to the digits asked for instead of cutting
ResultRounded(xpi, d) ==
    IF IsOpaque(xpi) THEN OpaqueStr
    ELSE IF d < 1 THEN SliceTo(DecStr(xpi), d + 2)
    ELSE DecStr(Fix(xpi, d + 1))

Result(xpi, d) == IF IsOpaque(xpi) THEN OpaqueStr ELSE SliceTo(DecStr(xpi), d + 2)


(***************************************************************************)
(* The state: the precision of the process-wide decimal context, the frame *)
(* of the call in progress, and what the call has printed.                 *)
(***************************************************************************)
VARIABLES
    pc,               \* the line the call is at, or idle / returned / raised
    prec,             \* decimal.getcontext().prec
    digits,           \* the argument of the call
    a, b, t, p,       \* the iteration state
    threshold,
    iteration_count,
    a_next, b_next, t_next, p_next,
    pi,
    ret,              \* the values returned: <<>> until the call returns
    exc,              \* the exception raised, "" for none
    printed,          \* the lines the call wrote to standard output
    gap, gap_next,    \* the distance of a and b (a_next and b_next) when Opaque
    exit,             \* history: the break that ended the loop
    entry_prec,       \* history: the context precision when the call began
    memo,             \* history: the first result of each digit count
    repeated          \* history: the digit count of the call had a result before

vars == <<pc, prec, digits, a, b, t, p, threshold, iteration_count,
          a_next, b_next, t_next, p_next, pi, ret, exc, printed,
          gap, gap_next, exit, entry_prec, memo, repeated>>

frame == <<a, b, t, p, threshold, iteration_count, a_next, b_next, t_next, p_next, pi>>

\* iteration_count before line 38
NoCount == 0 - 1

Init ==
    /\ pc = "idle"
    /\ prec = DefaultPrec
    /\ digits = 0
    /\ a = Unbound /\ b = Unbound /\ t = Unbound /\ p = Unbound
    /\ threshold = Unbound
    /\ iteration_count = NoCount
    /\ a_next = Unbound /\ b_next = Unbound /\ t_next = Unbound /\ p_next = Unbound
    /\ pi = Unbound
    /\ ret = <<>>
    /\ exc = ""
    /\ printed = <<>>
    /\ gap = NoGap /\ gap_next = NoGap
    /\ exit = "none"
    /\ entry_prec = DefaultPrec
    /\ memo = [n \in ExactDigits |-> <<>>]
    /\ repeated = FALSE

\* calculate_pi_gauss_legendre(d) is called: a new frame, nothing printed yet
Call(d) ==
    /\ pc \in {"idle", "returned", "raised"}
    /\ pc' = "L15"
    /\ digits' = d
    /\ a' = Unbound /\ b' = Unbound /\ t' = Unbound /\ p' = Unbound
    /\ threshold' = Unbound
    /\ iteration_count' = NoCount
    /\ a_next' = Unbound /\ b_next' = Unbound /\ t_next' = Unbound /\ p_next' = Unbound
    /\ pi' = Unbound
    /\ ret' = <<>>
    /\ exc' = ""
    /\ printed' = <<>>
    /\ gap' = NoGap /\ gap_next' = NoGap
    /\ exit' = "none"
    /\ entry_prec' = prec
    /\ repeated' = (d \in ExactDigits /\ memo[d] /= <<>>)
    /\ UNCHANGED <<prec, memo>>

\* the call ends with the exception e
Raise(e) ==
    /\ pc' = "raised"
    /\ exc' = e

\* line 15: decimal.getcontext().prec = digits + 10
SetPrec ==
    /\ pc = "L15"
    /\ IF ValidPrec(NewPrec(digits, prec))
       THEN /\ prec' = NewPrec(digits, prec)
            /\ pc' = "L18"
            /\ exc' = exc
       ELSE /\ Raise("ValueError")
            /\ prec' = prec
    /\ UNCHANGED <<digits, frame, ret, printed, gap, gap_next, exit, entry_prec, memo, repeated>>

\* lines 18-21: a, b, t, p
InitState ==
    /\ pc = "L18"
    /\ a' = FromInt(1)
    /\ b' = InitB(prec)
    /\ t' = InitT(prec)
    /\ p' = FromInt(1)
    /\ gap' = IF IsOpaque(b') THEN FirstGap ELSE NoGap
    /\ pc' = "L36"
    /\ UNCHANGED <<prec, digits, threshold, iteration_count, a_next, b_next, t_next,
                   p_next, pi, ret, exc, printed, gap_next, exit, entry_prec, memo, repeated>>

\* line 36: 10**(digits + 2) is a float for digits + 2 < 0, and a Decimal
\* divided by a float is a TypeError
SetThreshold ==
    /\ pc = "L36"
    /\ IF digits + 2 < 0
       THEN /\ Raise("TypeError")
            /\ threshold' = threshold
       ELSE /\ threshold' = Threshold(digits, prec)
            /\ pc' = "L38"
            /\ exc' = exc
    /\ UNCHANGED <<prec, digits, a, b, t, p, iteration_count, a_next, b_next, t_next,
                   p_next, pi, ret, printed, gap, gap_next, exit, entry_prec, memo, repeated>>

\* line 38: iteration_count = 0
InitCount ==
    /\ pc = "L38"
    /\ iteration_count' = 0
    /\ pc' = "L40"
    /\ UNCHANGED <<prec, digits, a, b, t, p, threshold, a_next, b_next, t_next,
                   p_next, pi, ret, exc, printed, gap, gap_next, exit, entry_prec, memo, repeated>>

\* lines 39-40: while True: iteration_count += 1
Incr ==
    /\ pc = "L40"
    /\ iteration_count' = iteration_count + 1
    /\ pc' = "L41"
    /\ UNCHANGED <<prec, digits, a, b, t, p, threshold, a_next, b_next, t_next,
                   p_next, pi, ret, exc, printed, gap, gap_next, exit, entry_prec, memo, repeated>>

\* lines 41-44 changed to take the square root from the new a
ComputeNextInPlace ==
    /\ pc = "L41"
    /\ a_next' = ANext(a, b, prec)
    /\ b_next' = BNext(a_next', b, prec)
    /\ t_next' = TNext(t, p, a, a_next', prec)
    /\ p_next' = PNext(p, prec)
    /\ gap_next' = IF IsOpaque(a_next') \/ IsOpaque(b_next') THEN GapStep(gap) ELSE NoGap
    /\ pc' = "L47"
    /\ UNCHANGED <<prec, digits, a, b, t, p, threshold, iteration_count, pi, ret, exc,
                   printed, gap, exit, entry_prec, memo, repeated>>

\* lines 41-44: a_next, b_next, t_next, p_next
ComputeNext ==
    /\ pc = "L41"
    /\ a_next' = ANext(a, b, prec)
    /\ b_next' = BNext(a, b, prec)
    /\ t_next' = TNext(t, p, a, a_next', prec)
    /\ p_next' = PNext(p, prec)
    /\ gap_next' = IF IsOpaque(a_next') \/ IsOpaque(b_next') THEN GapStep(gap) ELSE NoGap
    /\ pc' = "L47"
    /\ UNCHANGED <<prec, digits, a, b, t, p, threshold, iteration_count, pi, ret, exc,
                   printed, gap, exit, entry_prec, memo, repeated>>

\* lines 47-50: a, b, t, p = a_next, b_next, t_next, p_next
Update ==
    /\ pc = "L47"
    /\ a' = a_next
    /\ b' = b_next
    /\ t' = t_next
    /\ p' = p_next
    /\ gap' = gap_next
    /\ pc' = "L53"
    /\ UNCHANGED <<prec, digits, threshold, iteration_count, a_next, b_next, t_next,
                   p_next, pi, ret, exc, printed, gap_next, exit, entry_prec, memo, repeated>>

\* lines 53-54: if abs(a - b).compare(threshold) < 0: break
CheckConverged ==
    /\ pc = "L53"
    /\ \E c \in Converged(a, b, threshold, gap, prec) :
          IF c THEN pc' = "L64" /\ exit' = "converged"
               ELSE pc' = "L59" /\ exit' = exit
    /\ UNCHANGED <<prec, digits, frame, ret, exc, printed, gap, gap_next, entry_prec, memo, repeated>>

\* lines 59-61: if iteration_count > 25: print(...); break
CheckSafety ==
    /\ pc = "L59"
    /\ IF SafetyBreak(iteration_count)
       THEN /\ printed' = Append(printed, Warning(iteration_count))
            /\ exit' = "bound"
            /\ pc' = "L64"
       ELSE /\ printed' = printed
            /\ exit' = exit
            /\ pc' = "L40"
    /\ UNCHANGED <<prec, digits, frame, ret, exc, gap, gap_next, entry_prec, memo, repeated>>

\* line 64: pi = (a + b)**2 / (4 * t); a zero divisor traps
Final ==
    /\ pc = "L64"
    /\ IF ~IsOpaque(t) /\ DecIsZero(t)
       THEN /\ Raise("DivisionByZero")
            /\ pi' = pi
       ELSE /\ pi' = FinalPi(a, b, t, prec)
            /\ pc' = "L68"
            /\ exc' = exc
    /\ UNCHANGED <<prec, digits, a, b, t, p, threshold, iteration_count, a_next, b_next,
                   t_next, p_next, ret, printed, gap, gap_next, exit, entry_prec, memo, repeated>>

\* line 68: return str(pi)[:digits + 2]
Return ==
    /\ pc = "L68"
    /\ ret' = <<Result(pi, digits)>>
    /\ pc' = "returned"
    /\ memo' = IF digits \in ExactDigits /\ memo[digits] = <<>>
               THEN [memo EXCEPT ![digits] = <<Result(pi, digits), iteration_count>>]
               ELSE memo
    /\ UNCHANGED <<prec, digits, frame, exc, printed, gap, gap_next, exit, entry_prec,
                   repeated>>

Next ==
    \/ \E d \in InvalidDigits : Call(d)
    \/ \E d \in ExactDigits : Call(d)
    \/ \E d \in LargeDigits : Call(d)
    \/ SetPrec
    \/ InitState
    \/ SetThreshold
    \/ InitCount
    \/ Incr
    \/ ComputeNext
    \/ Update
    \/ CheckConverged
    \/ CheckSafety
    \/ Final
    \/ Return

Spec == Init /\ [][Next]_vars

(***************************************************************************)
(* The claims about calculate_pi_gauss_legendre.                           *)
(***************************************************************************)
\* the lines from the loop's first statement on, and the lines after the loop
Looping == pc \in {"L40", "L41", "L47", "L53", "L59"}
AfterLoop == pc \in {"L64", "L68", "returned"}

\* C1: a call with digits <= 0 ends in an InvalidDigitCount error before
\* anything is built: the precision is not set, a, b, t, p are not
\* constructed, the loop is not entered and no string is returned.
C1_InvalidDigitsRejected ==
    (pc /= "idle" /\ digits <= 0) =>
        /\ pc \in {"L15", "raised"}
        /\ pc = "raised" => exc = "InvalidDigitCount"
        /\ prec = entry_prec
        /\ a = Unbound /\ b = Unbound /\ t = Unbound /\ p = Unbound
        /\ iteration_count = NoCount
        /\ ret = <<>>

\* C2: for digits >= 1, whichever branch ends the loop, the iteration count
\* at the exit of the loop is at least 1 and at most the safety bound 25.
C2_CountWithinBound ==
    (digits >= 1 /\ AfterLoop) =>
        (1 <= iteration_count /\ iteration_count <= SafetyLimit)

\* C3: the threshold is 10^-(digits + 2) from line 36 on and all through
\* the loop, and the loop is left by the convergence branch only when the
\* a and b of that step, as just updated, have |a - b| strictly below it.
\* For Opaque a and b, the bounds on their distance do not exclude it.
C3_ConvergedBelowThreshold ==
    /\ (pc = "L38" \/ Looping \/ AfterLoop) => threshold = Dec(0, <<1>>, -(digits + 2))
    /\ (AfterLoop /\ exit = "converged") =>
          /\ a = a_next /\ b = b_next
          /\ IF IsOpaque(a) \/ IsOpaque(b)
             THEN gap.up >= 10 * (digits + 2)
             ELSE DecCompare(DecAbs(DecSub(a, b, prec), prec),
                             Dec(0, <<1>>, -(digits + 2))) < 0

C3_Witness ==
    /\ pc = "L64" /\ exit = "converged"
    /\ digits \in ExactDigits
    /\ ~IsOpaque(a) /\ ~IsOpaque(b) /\ a /= b
    /\ iteration_count >= 2

\* C4: a call that the safety bound ends returns normally, and what it
\* returns carries the outcome (a converged flag and the iteration count
\* next to the string); nothing is signalled outside the returned value.
C4_BoundExitFlagged ==
    (pc = "returned" /\ exit = "bound") => (Len(ret) = 3 /\ printed = <<>>)

\* C5: at every step of a call and after it, the precision of the
\* process-wide decimal context is what it was when the call began.
C5_PrecisionUnchanged == pc /= "idle" => prec = entry_prec

\* C6: a call with a valid digit count returns, and it returns the string
\* and uses the number of iterations of the first call with that digit
\* count, whatever calls came in between and whatever they left behind.
C6_SameResultAfterAnyCalls ==
    /\ digits \in ExactDigits => pc /= "raised"
    /\ (pc = "returned" /\ digits \in ExactDigits) =>
          memo[digits] = <<ret[1], iteration_count>>

C6_Witness ==
    /\ pc = "returned" /\ repeated
    /\ entry_prec /= WorkingPrec(digits)
    /\ entry_prec /= DefaultPrec

\* C7: no call writes to standard output, on any path.
C7_NoOutput == printed = <<>>

C9_UpdateFromOldValues ==
    /\ pc = "L47" =>
          /\ a_next = Div(Add(a, b, prec), FromInt(2), prec)
          /\ b_next = Sqrt(Mul(a, b, prec), prec)
          /\ t_next = Sub(t, Mul(p, Pow2(Sub(a, a_next, prec), prec), prec), prec)
          /\ p_next = Mul(FromInt(2), p, prec)
    /\ pc \in {"L53", "L59"} =>
          a = a_next /\ b = b_next /\ t = t_next /\ p = p_next

C9_Witness ==
    /\ pc = "L47" /\ iteration_count = 2
    /\ ~IsOpaque(a_next) /\ ~IsOpaque(b_next) /\ ~IsOpaque(t_next)
    /\ a_next /= a /\ b_next /= b /\ t_next /= t

\* C10: p is 1 with iteration_count 0 before the first iteration, and
\* 2^iteration_count after every iteration and at either exit of the loop.
C10_PIsTwoToTheCount ==
    /\ pc = "L38" => p = FromInt(1)
    /\ (pc \in {"L40", "L53", "L59"} \/ AfterLoop) => p = FromInt(2 ^ iteration_count)

C10_Witness ==
    /\ pc = "L64" /\ exit = "bound"
    /\ p = FromInt(2 ^ (SafetyLimit + 1))

====
